---- MODULE Spec2Model ----
(***************************************************************************)
(* Heimdall: the report pipeline of src/graph (workflow.py, trigger.py,     *)
(* nodes.py, state.py), the resilience decorators of                        *)
(* src/tools/resilience/tool_recovery.py as the tools of                    *)
(* src/tools/utilities/extra.py and src/tools/Market/news.py apply them,    *)
(* and the checkpoint database of workflow.py.                              *)
(*                                                                          *)
(* The snapshot (HeimdallState) is a Python dict: it is modelled as a       *)
(* function from field names to values, a field that was never written is   *)
(* not in its domain, and a node's return value is merged key by key.       *)
(* A text is a sequence of segments: "a\n\nb" is <<"a", "b">>, "" is <<>>.  *)
(* The stage workers (LLM agents) are opaque: each may return any of a      *)
(* small set of results or raise.                                           *)
(***************************************************************************)
EXTENDS Integers, Sequences, FiniteSets, TLC

VARIABLES
    state,        \* the snapshot threaded through the graph (HeimdallState)
    cursor,       \* the node the executor runs next, or "END" ("decision" where
                  \* the decision stage is evaluated on its own)
    phase,        \* "run": executor; "review": trigger.py handles the yielded
                  \* human_in_the_loop step; "done": analyze_company returned;
                  \* "tools": no session, tools are called through the breakers;
                  \* "threads": the same from worker threads; "retry": a function
                  \* is called through the retry decorator; "guarded": a tool is
                  \* called through retry and breaker; "store": the checkpoint
                  \* database across process starts
    status,       \* analyze_company's result status
    human_input,  \* what input("> ") returned at the gate, "<unread>" before
    gate_impl,    \* which human_in_the_loop_node the graph registers
    final_result, \* the last step the stream yielded to analyze_company: node -> update
    report,       \* the report analyze_company returns, NotReturned before
    breaker,      \* per CircuitBreaker instance: state, failure_count, last_failure_time
    now,          \* time.time(), in seconds
    call,         \* per caller: the tool whose body it is inside, or "idle"
    event,        \* what the last wrapper step did
    streak,       \* per breaker: the failed calls completed since the last successful one
    opened_at,    \* per breaker: the time of the last step that set it open, -1 before
    failures,     \* per breaker: the failed calls completed since failure_count was last set to 0
    loaded,       \* per caller: the failure_count its += has read and not yet stored, -1 otherwise
    retry,        \* the call in progress through a retry decorator
    trial,        \* per breaker: the caller let in by the step open -> half-open and still inside, or "none"
    request,      \* the FMP request in progress in _execute_fmp_request
    process,      \* "down", or "up" once src.graph.workflow is imported
    checkpoints   \* the checkpoint database file: "<no file>", or thread_id -> checkpoint

svars == <<state, cursor, phase, status, human_input, gate_impl, final_result, report>>
bvars == <<breaker, now, call, event, streak, opened_at, failures, loaded, retry,
          trial, request>>
cvars == <<process, checkpoints>>
vars == <<state, cursor, phase, status, human_input, gate_impl, final_result, report,
          breaker, now, call, event, streak, opened_at, failures, loaded, retry,
          trial, request, process, checkpoints>>

----------------------------------------------------------------------------
(* Bounds of the model *)

\* The values of max_iterations a session may be started with: 1..MaxIterations.
MaxIterations == 3
\* The decision stage is evaluated while loop_count < MaxLoopCount.
MaxLoopCount == 5

----------------------------------------------------------------------------
(* dict helpers *)

Get(s, k, d) == IF k \in DOMAIN s THEN s[k] ELSE d

\* A node's partial update merged into the snapshot. state.py:84 gives
\* messages the add_messages reducer and state.py:66 gives iteration_count
\* operator.add; every other field is overwritten.
Merge(s, u) ==
    [k \in DOMAIN s \cup DOMAIN u |->
        IF k \notin DOMAIN u THEN s[k]
        ELSE IF k \notin DOMAIN s THEN u[k]
        ELSE IF k = "messages" THEN s[k] \o u[k]
        ELSE IF k = "iteration_count" THEN s[k] + u[k]
        ELSE u[k]]

\* What a worker may write as a report: a clean text, or one with the word
\* "Error" in it.
CleanText == "Findings look sound."
ErrorText == "Error: data unavailable."
Texts == {CleanText, ErrorText}

\* "error" in text.lower(), for a text of segments.
ContainsError(text) == \E i \in 1..Len(text) : text[i] = ErrorText

ValidationSuccessful == "Validation successful."
ValidationFailed == "Validation failed: Report contains errors."

\* "failed" in s.lower()
ContainsFailed(s) == s = ValidationFailed

NoReportAvailable == <<"No report available.">>

----------------------------------------------------------------------------
(* The nodes of workflow.py: each is the set of updates it may return *)

\* The opaque supervisor's result: a dict naming next_agent (one of the
\* declared route keys or some other name), a dict without next_agent, or a
\* value that is no dict.
RouteKeys == {"research_supervisor", "valuation_supervisor", "risk_supervisor",
              "compliance_agent", "aggregate_reports", "END"}
SupervisorResults == RouteKeys \cup {"unknown_agent", "<no next_agent>", "<not a dict>"}

main_supervisor_node(s) ==
    {[main_supervisor_output |-> r] : r \in SupervisorResults}
    \cup {[error |-> "Main supervisor failed"]}

\* A stage whose failure also wipes the report it wrote earlier.
research_node_clears_report(s) ==
    {[research_report |-> t] : t \in Texts}
    \cup {[error |-> "Research node failed", research_report |-> ""]}

research_node(s) ==
    {[research_report |-> t] : t \in Texts} \cup {[error |-> "Research node failed"]}

valuation_node(s) ==
    {[valuation_report |-> t] : t \in Texts} \cup {[error |-> "Valuation node failed"]}

risk_node(s) ==
    {[risk_report |-> t] : t \in Texts} \cup {[error |-> "Risk node failed"]}

compliance_node(s) ==
    {[compliance_report |-> t] : t \in Texts} \cup {[error |-> "Compliance node failed"]}

\* One part of the aggregated report: f"{title}\n{body}" when the field is
\* present and truthy.
ReportPart(s, field, title) ==
    IF field \in DOMAIN s /\ s[field] # "" THEN <<title, s[field]>> ELSE <<>>

aggregate_reports_node(s) ==
    {[final_report |->
        ReportPart(s, "research_report", "Research Report:")
        \o ReportPart(s, "valuation_report", "Valuation Report:")
        \o ReportPart(s, "risk_report", "Risk Report:")
        \o ReportPart(s, "compliance_report", "Compliance Report:")]}

validate_report_node(s) ==
    {[validation_report |->
        IF ContainsError(Get(s, "final_report", <<>>))
        THEN ValidationFailed ELSE ValidationSuccessful]}

\* workflow.py registers its own placeholder, which approves by itself;
\* nodes.py holds the pausing node that trigger.py:51 waits for.
placeholder_human_in_the_loop_node(s) ==
    {[human_review_decision |-> "approved"]}

pausing_human_in_the_loop_node(s) ==
    {[human_review_decision |-> "pending",
      presented_report |-> Get(s, "final_report", NoReportAvailable)]}

human_in_the_loop_node(s) ==
    IF gate_impl = "placeholder" THEN placeholder_human_in_the_loop_node(s)
    ELSE pausing_human_in_the_loop_node(s)

----------------------------------------------------------------------------
(* The edges of workflow.py. A router returns a route key; "<raise>" stands  *)
(* for the exception of a router that fails or returns an undeclared key.   *)

main_supervisor_router(s) ==
    LET out == Get(s, "main_supervisor_output", "<no next_agent>")
    IN  IF out = "<not a dict>" THEN "<raise>"
        ELSE IF out = "<no next_agent>" THEN "END"
        ELSE out

main_supervisor_edges(key) ==
    CASE key = "research_supervisor" -> "research"
      [] key = "valuation_supervisor" -> "valuation"
      [] key = "risk_supervisor" -> "risk"
      [] key = "compliance_agent" -> "compliance"
      [] key = "aggregate_reports" -> "aggregate_reports"
      [] key = "END" -> "END"
      [] OTHER -> "<raise>"

\* A router that sends every report to the reviewer, validated or not.
validate_report_router_always_review(s) == "human_in_the_loop"

validate_report_router(s) ==
    IF ~ContainsFailed(Get(s, "validation_report", "")) THEN "human_in_the_loop"
    ELSE "main_supervisor"

\* A router that takes the wrong review decision for the final one.
human_in_the_loop_router_wrong_decision(s) ==
    IF Get(s, "human_review_decision", "None") = "changes_applied" THEN "END"
    ELSE "main_supervisor"

human_in_the_loop_router(s) ==
    IF Get(s, "human_review_decision", "None") = "approved" THEN "END"
    ELSE "main_supervisor"

\* The node that follows node n in snapshot s.
NextNode(n, s) ==
    CASE n = "main_supervisor" -> main_supervisor_edges(main_supervisor_router(s))
      [] n \in {"research", "valuation", "risk", "compliance"} -> "main_supervisor"
      [] n = "aggregate_reports" -> "validate_report"
      [] n = "validate_report" -> validate_report_router(s)
      [] n = "human_in_the_loop" -> human_in_the_loop_router(s)

----------------------------------------------------------------------------
(* The decision stage of nodes.py *)

\* What the decision maker's last message parses to (DecisionOutput): the
\* fields the node reads.
DecisionOutputs ==
    [overall_decision : {"accept", "minor_corrections", "major_revision", "reject"},
     iteration_required : BOOLEAN]

updated_loop_count(s, d) ==
    IF d.iteration_required THEN Get(s, "loop_count", 0) + 1
    ELSE Get(s, "loop_count", 0)

decision_node(s) ==
    {[decision_output |-> d,
      decision_report |-> <<"json", d>>,
      loop_count |-> updated_loop_count(s, d)] : d \in DecisionOutputs}
    \cup {[error |-> "Decision parsing failed"],
          [error |-> "No content in decision maker response"],
          [error |-> "Decision node failed"]}

----------------------------------------------------------------------------
(* The review handler of trigger.py *)

\* What the reviewer may type at the prompt.
HumanInputs ==
    {"", "   ", "{}", "looks good", "- fix the intro",
     "risk_report: [unclosed", "risk_report: Revised risk text."}

\* human_input.strip()
Strip(s) == IF s = "   " THEN "" ELSE s

\* yaml.safe_load: the kind of value the input parses to ("YAMLError" when
\* it does not parse) and, for a mapping, the mapping itself.
safe_load(s) ==
    CASE s = "{}" -> [kind |-> "dict", value |-> <<>>]
      [] s = "looks good" -> [kind |-> "str", value |-> <<>>]
      [] s = "- fix the intro" -> [kind |-> "list", value |-> <<>>]
      [] s = "risk_report: [unclosed" -> [kind |-> "YAMLError", value |-> <<>>]
      [] s = "risk_report: Revised risk text." ->
            [kind |-> "dict", value |-> [risk_report |-> "Revised risk text."]]
      [] OTHER -> [kind |-> "NoneType", value |-> <<>>]

\* A handler that prompts whatever the review decision is.
review_pending_unguarded(values) == TRUE

\* trigger.py:51, the guard of the whole handler
review_pending(values) == Get(values, "human_review_decision", "None") = "pending"

\* A handler whose default update forgets to approve.
state_update_keeps_pending(input) ==
    [raised |-> FALSE,
     update |-> [human_review_decision |-> "pending", applied_feedback |-> FALSE]]

\* trigger.py:67-114: the update the handler builds from the input, or the
\* exception that escapes it. The module never imports re, so the first
\* iteration of the loop over a non-empty mapping raises NameError at
\* re.compile (line 83); only yaml.YAMLError is caught (line 110).
state_update(input) ==
    LET approve == [human_review_decision |-> "approved", applied_feedback |-> FALSE]
    IN  IF Strip(input) = "" THEN [raised |-> FALSE, update |-> approve]
        ELSE LET feedback == safe_load(input)
             IN  IF feedback.kind = "YAMLError"
                 THEN [raised |-> FALSE, update |-> approve]
                 ELSE IF feedback.kind = "dict" /\ DOMAIN feedback.value # {}
                 THEN [raised |-> TRUE, update |-> approve]
                 ELSE [raised |-> FALSE, update |-> approve]

----------------------------------------------------------------------------
(* The circuit breaker of tool_recovery.py *)

\* The instances the tools are decorated with, both built with
\* CircuitBreaker(failure_threshold=3, recovery_timeout=60).
Breakers == {"web_search_breaker", "market_status_breaker"}
failure_threshold == 3
recovery_timeout == 60

\* Decorated tools, each the client of an external service of its own:
\* search_web of Tavily, search_web2 of DuckDuckGo, get_market_status of
\* Finnhub.
Tools == {"search_web", "search_web2", "get_market_status"}

\* The breaker instance named in the tool's decorator list.
breaker_of(t) ==
    IF t = "get_market_status" THEN "market_status_breaker" ELSE "web_search_breaker"

\* Whether the tool's body can raise: search_web and get_market_status raise
\* ValueError without their API key; search_web2 catches every exception of
\* its body and returns [].
may_raise(t) == t # "search_web2"

\* async def: the body runs on the event loop, never in a worker thread.
is_coroutine(t) == t = "search_web"

\* The callers that may be inside a wrapped function at the same time.
Callers == {"caller1", "caller2"}

\* The clock advances in steps of TickSeconds up to MaxTime.
TickSeconds == 30
MaxTime == 120

\* CircuitBreaker.__init__
new_circuit_breaker == [state |-> "closed", failure_count |-> 0, last_failure_time |-> 0]

\* A breaker that lets the call through as soon as recovery_timeout has passed.
admit_at_timeout(cb, current_time) ==
    IF cb.state = "open"
    THEN IF current_time - cb.last_failure_time >= recovery_timeout
         THEN [raised |-> FALSE, cb |-> [cb EXCEPT !.state = "half-open"]]
         ELSE [raised |-> TRUE, cb |-> cb]
    ELSE [raised |-> FALSE, cb |-> cb]

\* A breaker that takes a rejected call for a failure of its own and
\* stamps it.
admit_stamps_rejection(cb, current_time) ==
    IF cb.state = "open"
    THEN IF current_time - cb.last_failure_time > recovery_timeout
         THEN [raised |-> FALSE, cb |-> [cb EXCEPT !.state = "half-open"]]
         ELSE [raised |-> TRUE, cb |-> [cb EXCEPT !.last_failure_time = current_time]]
    ELSE [raised |-> FALSE, cb |-> cb]

\* The head of the wrapper: an open breaker rejects the call unless more
\* than recovery_timeout has passed since the last failure, and then turns
\* half-open and lets the call through.
admit(cb, current_time) ==
    IF cb.state = "open"
    THEN IF current_time - cb.last_failure_time > recovery_timeout
         THEN [raised |-> FALSE, cb |-> [cb EXCEPT !.state = "half-open"]]
         ELSE [raised |-> TRUE, cb |-> cb]
    ELSE [raised |-> FALSE, cb |-> cb]

\* A breaker that closes after a trial without clearing its count.
on_success_keeps_count(cb) ==
    IF cb.state = "half-open"
    THEN [cb EXCEPT !.state = "closed"]
    ELSE cb

\* After the wrapped function returned.
on_success(cb) ==
    IF cb.state = "half-open"
    THEN [cb EXCEPT !.state = "closed", !.failure_count = 0]
    ELSE cb

\* A breaker that opens one failure late.
on_failure_opens_late(cb, current_time) ==
    [state |-> IF cb.failure_count + 1 > failure_threshold THEN "open" ELSE cb.state,
     failure_count |-> cb.failure_count + 1,
     last_failure_time |-> current_time]

\* After the wrapped function raised.
on_failure(cb, current_time) ==
    [state |-> IF cb.failure_count + 1 >= failure_threshold THEN "open" ELSE cb.state,
     failure_count |-> cb.failure_count + 1,
     last_failure_time |-> current_time]

----------------------------------------------------------------------------
(* The retry decorator of tool_recovery.py. Delays are in microseconds and  *)
(* exponential_base is a fraction <<numerator, denominator>>, so that the   *)
(* products the code computes in floating point are exact here.             *)

\* retry_with_exponential_backoff(max_retries=3, initial_delay=1.0,
\* exponential_base=2.0, jitter=True)
retry_defaults ==
    [max_retries |-> 3, initial_delay |-> 1000000,
     exponential_base |-> <<2, 1>>, jitter |-> TRUE]

\* The largest max_retries a function is decorated with here.
MaxRetries == 5

\* The arguments a function may be decorated with; the docstring's example
\* is max_retries=5, initial_delay=0.5.
RetryArgs ==
    [max_retries : 0..MaxRetries,
     initial_delay : {500000, 1000000},
     exponential_base : {<<1, 2>>, <<1, 1>>, <<2, 1>>},
     jitter : BOOLEAN]

\* The arguments in the decorator list of tool t: max_retries alone is given.
retry_args_of(t) ==
    [retry_defaults EXCEPT !.max_retries = IF t = "get_market_status" THEN 5 ELSE 2]

\* What may be called through the decorator: a decorated tool (the
\* decorator wraps the breaker's wrapper of the tool), or a function
\* decorated with retry alone, as the docstring's unreliable_api_call.
RetryTargets == Tools \cup {"unreliable_api_call"}

RECURSIVE Pow(_, _)
Pow(b, n) == IF n = 0 THEN 1 ELSE b * Pow(b, n - 1)

\* A backoff whose exponent counts from one.
backoff_from_one(args, tries) ==
    (args.initial_delay * Pow(args.exponential_base[1], tries + 1))
        \div Pow(args.exponential_base[2], tries + 1)

\* initial_delay * (exponential_base ** tries)
backoff(args, tries) ==
    (args.initial_delay * Pow(args.exponential_base[1], tries))
        \div Pow(args.exponential_base[2], tries)

\* random.random() returns a float in [0, 1): the ends of the range.
Jitters == {0, 999999}

\* The delay slept after the failure of attempt number tries (from 0), j
\* being what random.random() returned.
delay(args, tries, j) == backoff(args, tries) + (IF args.jitter THEN j ELSE 0)

\* A loop that gives up one attempt early.
exhausted_early(tries, max_retries) == tries + 1 >= max_retries

\* tries == max_retries (line 59), the else of tries < max_retries (line 84).
exhausted(tries, max_retries) == tries = max_retries

\* No call in progress.
retry_idle ==
    [pc |-> "idle", target |-> "none", args |-> retry_defaults, tries |-> 0,
     attempts |-> 0, waits |-> <<>>, errors |-> <<>>, outcome |-> "none",
     propagated |-> 0]

\* The except branch of the loop: the exception of the current attempt is
\* raised to the caller when the attempts are exhausted, otherwise the
\* delay is computed and slept. errors lists what each failed attempt
\* raised, propagated is the attempt whose exception reached the caller.
on_exception(r, error, j) ==
    LET r1 == [r EXCEPT !.errors = Append(@, error)]
    IN  IF exhausted(r.tries, r.args.max_retries)
        THEN [r1 EXCEPT !.pc = "done", !.outcome = "raised", !.propagated = r.tries + 1]
        ELSE [r1 EXCEPT !.pc = "sleeping",
                        !.waits = Append(@, delay(r.args, r.tries, j))]

----------------------------------------------------------------------------
(* The checkpoint database of workflow.py *)

\* thread_id is the session id (trigger.py:39).
Sessions == {"session-1", "session-2"}

\* What a thread's latest checkpoint names as the node to run next.
Cursors ==
    {"main_supervisor", "research", "valuation", "risk", "compliance",
     "aggregate_reports", "validate_report", "human_in_the_loop", "END"}

\* No database file; a file holds, per thread, its latest checkpoint or "<none>".
no_database == [exists |-> FALSE, thread |-> [s \in Sessions |-> "<none>"]]

\* main_memory(database_name, reset): the file the returned saver is
\* connected to. An existing file is removed when reset is set, and
\* sqlite3.connect creates the file when there is none.
main_memory(db, reset) ==
    IF db.exists /\ reset
    THEN [no_database EXCEPT !.exists = TRUE]
    ELSE [db EXCEPT !.exists = TRUE]

----------------------------------------------------------------------------
(* _execute_fmp_request of tools/financial_modeling_prep.py: the request    *)
(* loop of the Financial Modeling Prep tools.                               *)

fmp_max_retries == 3
fmp_retry_delay == 1

Tickers == {"AAPL", "MSFT"}

\* What one session.get may come to: a status (200 with the kind of body
\* response.json() gives), an aiohttp.ClientError, or any other exception.
Responses ==
    {"200 data", "200 empty", "200 Error Message", "429", "401", "404", "500",
     "ClientError", "Exception"}

request_idle ==
    [pc |-> "idle", ticker |-> "none", attempt |-> 0, attempts |-> 0,
     responses |-> <<>>, sleeps |-> <<>>, result |-> [error |-> <<"none">>]]

returned(r, result) == [r EXCEPT !.pc = "returned", !.result = result]

slept(r, seconds) == [r EXCEPT !.pc = "sleep", !.sleeps = Append(@, seconds)]

\* The body of the try and the ClientError handler (lines 145-184).
on_status(r, response) ==
    CASE response = "200 data" -> returned(r, [data |-> <<"payload", r.ticker>>])
      [] response = "200 empty" ->
            returned(r, [error |-> <<"No data found for", r.ticker>>])
      [] response = "200 Error Message" ->
            returned(r, [error |-> <<"API error:", "Error Message">>])
      [] response = "429" ->
            IF r.attempt = fmp_max_retries - 1
            THEN returned(r, [error |-> <<"Rate limit exceeded. Please try again later.">>])
            ELSE slept(r, fmp_retry_delay * (r.attempt + 2))
      [] response = "401" ->
            returned(r, [error |-> <<"Unauthorized. Please check your API key.">>])
      [] response = "404" ->
            returned(r, [error |-> <<"No data found for ticker", r.ticker>>])
      [] response = "ClientError" ->
            IF r.attempt = fmp_max_retries - 1
            THEN returned(r, [error |-> <<"Network request failed after", fmp_max_retries, "attempts">>])
            ELSE slept(r, fmp_retry_delay * (r.attempt + 1))
      [] OTHER -> returned(r, [error |-> <<"HTTP status", response>>])

\* A loop without the catch-all handler: the exception reaches the caller.
on_response_propagates(r, response) ==
    LET r1 == [r EXCEPT !.attempts = @ + 1, !.responses = Append(@, response)]
    IN  IF response = "Exception" THEN [r1 EXCEPT !.pc = "raised"]
        ELSE on_status(r1, response)

\* One pass of the loop body (lines 144-188).
on_response(r, response) ==
    LET r1 == [r EXCEPT !.attempts = @ + 1, !.responses = Append(@, response)]
    IN  IF response = "Exception"
        THEN returned(r1, [error |-> <<"Unexpected error:", "Exception">>])
        ELSE on_status(r1, response)

\* The sleep is over: the for loop takes its next value, or runs out
\* (line 190).
next_attempt(r) ==
    IF r.attempt + 1 < fmp_max_retries
    THEN [r EXCEPT !.pc = "attempt", !.attempt = @ + 1]
    ELSE returned([r EXCEPT !.attempt = @ + 1],
                  [error |-> <<"Failed to complete request after", fmp_max_retries, "attempts">>])

BreakersIdle ==
    /\ breaker = [b \in Breakers |-> new_circuit_breaker]
    /\ now = 0
    /\ call = [c \in Callers |-> "idle"]
    /\ event = [kind |-> "none", breaker |-> "none"]
    /\ streak = [b \in Breakers |-> 0]
    /\ opened_at = [b \in Breakers |-> -1]
    /\ failures = [b \in Breakers |-> 0]
    /\ loaded = [c \in Callers |-> -1]
    /\ retry = retry_idle
    /\ trial = [b \in Breakers |-> "none"]
    /\ request = request_idle

StoreIdle ==
    /\ process = "down"
    /\ checkpoints = no_database

----------------------------------------------------------------------------
(* The session: analyze_company of trigger.py driving the compiled graph *)

\* final_result before the first step (trigger.py:40), and the report of a
\* session that has not returned. A report is a text of segments.
no_step == [k \in {} |-> k]
NotReturned == <<"<not returned>">>
NoFinalReport == <<"Analysis complete, but no final report was generated.">>

initial_state ==
    [company_name |-> "Microsoft",
     session_id |-> "session-1",
     rag_path |-> "data/rag_session-1",
     loop_count |-> 0,
     messages |-> <<"Generate a full financial intelligence report for Microsoft.">>]

Init ==
    /\ state = initial_state
    /\ cursor = "main_supervisor"
    /\ phase = "run"
    /\ status = "running"
    /\ human_input = "<unread>"
    /\ gate_impl \in {"placeholder", "pausing"}
    /\ final_result = no_step
    /\ report = NotReturned
    /\ BreakersIdle
    /\ StoreIdle

\* One executor step: node n runs, its update is merged, the edge out of n
\* is resolved against the merged snapshot. An exception of the router
\* escapes astream and analyze_company returns status error (line 128).
Step(n, updates) ==
    /\ phase = "run"
    /\ cursor = n
    /\ \E u \in updates :
        LET s2 == Merge(state, u)
            to == NextNode(n, s2)
        IN  /\ state' = s2
            /\ IF to = "<raise>"
               THEN /\ status' = "error"
                    /\ phase' = "done"
                    /\ cursor' = cursor
                    /\ final_result' = final_result
               ELSE /\ status' = status
                    /\ phase' = phase
                    /\ cursor' = to
                    /\ final_result' = (n :> u)
    /\ UNCHANGED <<human_input, gate_impl, report>>
    /\ UNCHANGED bvars
    /\ UNCHANGED cvars

MainSupervisorStep == Step("main_supervisor", main_supervisor_node(state))
ResearchStep == Step("research", research_node(state))
ValuationStep == Step("valuation", valuation_node(state))
RiskStep == Step("risk", risk_node(state))
ComplianceStep == Step("compliance", compliance_node(state))
AggregateReportsStep == Step("aggregate_reports", aggregate_reports_node(state))
ValidateReportStep == Step("validate_report", validate_report_node(state))

\* The human_in_the_loop step is yielded to analyze_company (trigger.py:48)
\* before the walk goes on.
HumanInTheLoopStep ==
    /\ phase = "run"
    /\ cursor = "human_in_the_loop"
    /\ \E u \in human_in_the_loop_node(state) :
        /\ state' = Merge(state, u)
        /\ final_result' = ("human_in_the_loop" :> u)
    /\ phase' = "review"
    /\ UNCHANGED <<cursor, status, human_input, gate_impl, report>>
    /\ UNCHANGED bvars
    /\ UNCHANGED cvars

\* trigger.py:48-117, then the walk resumes along the edge out of the gate.
ReviewHandler ==
    /\ phase = "review"
    /\ IF review_pending(state)
       THEN \E input \in HumanInputs :
              LET r == state_update(input)
                  s2 == Merge(state, r.update)
              IN  /\ human_input' = input
                  /\ IF r.raised
                     THEN /\ status' = "error"
                          /\ phase' = "done"
                          /\ UNCHANGED <<state, cursor>>
                     ELSE /\ state' = s2
                          /\ cursor' = NextNode("human_in_the_loop", s2)
                          /\ phase' = "run"
                          /\ status' = status
       ELSE /\ cursor' = NextNode("human_in_the_loop", state)
            /\ phase' = "run"
            /\ UNCHANGED <<state, status, human_input>>
    /\ UNCHANGED <<gate_impl, final_result, report>>
    /\ UNCHANGED bvars
    /\ UNCHANGED cvars

\* The stream is exhausted at END: analyze_company returns status success
\* and, as the report, what it finds under "final_report" in the last step
\* the stream yielded (trigger.py:119-123).
Finish ==
    /\ phase = "run"
    /\ cursor = "END"
    /\ status' = "success"
    /\ phase' = "done"
    /\ report' = Get(final_result, "final_report", NoFinalReport)
    /\ UNCHANGED <<state, cursor, human_input, gate_impl, final_result>>
    /\ UNCHANGED bvars
    /\ UNCHANGED cvars

Next ==
    \/ MainSupervisorStep
    \/ ResearchStep
    \/ ValuationStep
    \/ RiskStep
    \/ ComplianceStep
    \/ AggregateReportsStep
    \/ ValidateReportStep
    \/ HumanInTheLoopStep
    \/ ReviewHandler
    \/ Finish

Spec == Init /\ [][Next]_vars

\* The executor never idles while a step is enabled.
FairSpec == Spec /\ WF_vars(Next)

----------------------------------------------------------------------------
(* The decision stage on its own: nothing in workflow.py registers         *)
(* decision_node or routes on its result, so it is checked as the stage    *)
(* contract reads: evaluated on the snapshot it last updated, once per     *)
(* revision cycle. The session is started with some max_iterations.        *)

InitDecision ==
    /\ \E m \in 1..MaxIterations : state = Merge(initial_state, [max_iterations |-> m])
    /\ cursor = "decision"
    /\ phase = "run"
    /\ status = "running"
    /\ human_input = "<unread>"
    /\ gate_impl = "placeholder"
    /\ final_result = no_step
    /\ report = NotReturned
    /\ BreakersIdle
    /\ StoreIdle

DecisionStep ==
    /\ phase = "run"
    /\ cursor = "decision"
    /\ Get(state, "loop_count", 0) < MaxLoopCount
    /\ \E u \in decision_node(state) : state' = Merge(state, u)
    /\ UNCHANGED <<cursor, phase, status, human_input, gate_impl, final_result, report>>
    /\ UNCHANGED bvars
    /\ UNCHANGED cvars

NextDecision == DecisionStep

DecisionSpec == InitDecision /\ [][NextDecision]_vars

----------------------------------------------------------------------------
(* Calls through the breakers. The wrapper runs from its head to the call   *)
(* of the wrapped function in one piece, and from the function's return to  *)
(* its own return in one piece: the await of the wrapped coroutine is the   *)
(* only point where another caller may run.                                 *)

InitBreaker ==
    /\ state = initial_state
    /\ cursor = "main_supervisor"
    /\ phase = "tools"
    /\ status = "running"
    /\ human_input = "<unread>"
    /\ gate_impl = "placeholder"
    /\ final_result = no_step
    /\ report = NotReturned
    /\ BreakersIdle
    /\ StoreIdle

\* trial once caller c has left the body of its tool.
left_by(c) == [b \in Breakers |-> IF trial[b] = c THEN "none" ELSE trial[b]]

\* Caller c calls tool t: rejected at the head of the wrapper of t's
\* breaker, or let through to the body of t. Worker threads run the tools
\* that are no coroutines.
Call(c, t) ==
    /\ phase \in {"tools", "threads"}
    /\ phase = "threads" => ~is_coroutine(t)
    /\ call[c] = "idle"
    /\ LET b == breaker_of(t)
           r == admit(breaker[b], now)
       IN  /\ breaker' = [breaker EXCEPT ![b] = r.cb]
           /\ IF r.raised
              THEN /\ call' = call
                   /\ event' = [kind |-> "rejected", breaker |-> b]
              ELSE /\ call' = [call EXCEPT ![c] = t]
                   /\ event' = [kind |-> "invoked", breaker |-> b]
           /\ trial' = IF breaker[b].state = "open" /\ r.cb.state = "half-open"
                       THEN [trial EXCEPT ![b] = c]
                       ELSE trial
    /\ UNCHANGED <<now, streak, opened_at, failures, loaded, retry, request>>
    /\ UNCHANGED svars
    /\ UNCHANGED cvars

\* What a completed success of a call through breaker b leaves behind.
Succeeded(b) ==
    /\ breaker' = [breaker EXCEPT ![b] = on_success(breaker[b])]
    /\ streak' = [streak EXCEPT ![b] = 0]
    /\ failures' = [failures EXCEPT
                      ![b] = IF breaker[b].state = "half-open" THEN 0 ELSE @]
    /\ event' = [kind |-> "succeeded", breaker |-> b]

\* The body of the tool returns to caller c.
Return(c) ==
    /\ phase \in {"tools", "threads"}
    /\ call[c] # "idle"
    /\ loaded[c] = -1
    /\ Succeeded(breaker_of(call[c]))
    /\ call' = [call EXCEPT ![c] = "idle"]
    /\ trial' = left_by(c)
    /\ UNCHANGED <<now, opened_at, loaded, retry, request>>
    /\ UNCHANGED svars
    /\ UNCHANGED cvars

\* What a completed failure of a call through breaker b leaves behind, cb
\* being the breaker as the except branch found it.
Failed(b, cb) ==
    /\ breaker' = [breaker EXCEPT ![b] = on_failure(cb, now)]
    /\ streak' = [streak EXCEPT ![b] = @ + 1]
    /\ failures' = [failures EXCEPT ![b] = @ + 1]
    /\ opened_at' = [opened_at EXCEPT
                       ![b] = IF on_failure(cb, now).state = "open" THEN now ELSE @]
    /\ event' = [kind |-> "failed", breaker |-> b]

\* The body of the tool raises in caller c.
Raise(c) ==
    /\ phase = "tools"
    /\ call[c] # "idle"
    /\ may_raise(call[c])
    /\ Failed(breaker_of(call[c]), breaker[breaker_of(call[c])])
    /\ call' = [call EXCEPT ![c] = "idle"]
    /\ trial' = left_by(c)
    /\ UNCHANGED <<now, loaded, retry, request>>
    /\ UNCHANGED svars
    /\ UNCHANGED cvars

Tick ==
    /\ phase \in {"tools", "threads", "retry", "guarded"}
    /\ now + TickSeconds <= MaxTime
    /\ now' = now + TickSeconds
    /\ UNCHANGED <<breaker, call, event, streak, opened_at, failures, loaded, retry, trial, request>>
    /\ UNCHANGED svars
    /\ UNCHANGED cvars

NextBreaker ==
    \/ \E c \in Callers, t \in Tools : Call(c, t)
    \/ \E c \in Callers : Return(c)
    \/ \E c \in Callers : Raise(c)
    \/ Tick

BreakerSpec == InitBreaker /\ [][NextBreaker]_vars

----------------------------------------------------------------------------
(* sync_wrapper called from worker threads. Nothing excludes one thread     *)
(* from another inside the wrapper, and self.failure_count += 1 (line 204)  *)
(* is a read followed by a write: the thread may be switched out in         *)
(* between. The other statements of the wrapper are taken as in             *)
(* BreakerSpec.                                                             *)

InitThreads ==
    /\ state = initial_state
    /\ cursor = "main_supervisor"
    /\ phase = "threads"
    /\ status = "running"
    /\ human_input = "<unread>"
    /\ gate_impl = "placeholder"
    /\ final_result = no_step
    /\ report = NotReturned
    /\ BreakersIdle
    /\ StoreIdle

\* The body raised in thread c: the except branch reads failure_count.
RaiseLoad(c) ==
    /\ phase = "threads"
    /\ call[c] # "idle"
    /\ may_raise(call[c])
    /\ loaded[c] = -1
    /\ loaded' = [loaded EXCEPT ![c] = breaker[breaker_of(call[c])].failure_count]
    /\ UNCHANGED <<breaker, now, call, event, streak, opened_at, failures, retry, trial, request>>
    /\ UNCHANGED svars
    /\ UNCHANGED cvars

\* Thread c stores the count it read plus one and runs lines 205-208.
RaiseStore(c) ==
    /\ phase = "threads"
    /\ loaded[c] # -1
    /\ LET b == breaker_of(call[c])
       IN  Failed(b, [breaker[b] EXCEPT !.failure_count = loaded[c]])
    /\ call' = [call EXCEPT ![c] = "idle"]
    /\ loaded' = [loaded EXCEPT ![c] = -1]
    /\ trial' = left_by(c)
    /\ UNCHANGED <<now, retry, request>>
    /\ UNCHANGED svars
    /\ UNCHANGED cvars

NextThreads ==
    \/ \E c \in Callers, t \in Tools : Call(c, t)
    \/ \E c \in Callers : Return(c)
    \/ \E c \in Callers : RaiseLoad(c)
    \/ \E c \in Callers : RaiseStore(c)
    \/ Tick

ThreadSpec == InitThreads /\ [][NextThreads]_vars

----------------------------------------------------------------------------
(* A function called through the retry decorator by one caller. The loop   *)
(* is cut at the call of the wrapped function and at the sleep. In         *)
(* RetrySpec the function is decorated with retry alone; in GuardedSpec it *)
(* is a tool, and what the loop calls is the breaker's wrapper of the      *)
(* tool.                                                                   *)

InitRetry ==
    /\ state = initial_state
    /\ cursor = "main_supervisor"
    /\ phase = "retry"
    /\ status = "running"
    /\ human_input = "<unread>"
    /\ gate_impl = "placeholder"
    /\ final_result = no_step
    /\ report = NotReturned
    /\ BreakersIdle
    /\ StoreIdle

RetryCaller == "caller1"

\* The caller calls the decorated function.
RetryCall(target, args) ==
    /\ phase \in {"retry", "guarded"}
    /\ retry.pc \in {"idle", "done"}
    /\ phase = "guarded" <=> target \in Tools
    /\ target \in Tools => args = retry_args_of(target)
    /\ retry' = [retry_idle EXCEPT !.pc = "ready", !.target = target, !.args = args]
    /\ UNCHANGED <<breaker, now, call, event, streak, opened_at, failures, loaded, trial, request>>
    /\ UNCHANGED svars
    /\ UNCHANGED cvars

\* The loop calls the wrapped function: for a tool the breaker's wrapper,
\* whose rejection is an exception like any other.
Attempt ==
    /\ phase \in {"retry", "guarded"}
    /\ retry.pc = "ready"
    /\ LET r1 == [retry EXCEPT !.attempts = @ + 1]
       IN  IF retry.target \in Tools
           THEN LET b == breaker_of(retry.target)
                    r == admit(breaker[b], now)
                IN  /\ breaker' = [breaker EXCEPT ![b] = r.cb]
                    /\ IF r.raised
                       THEN /\ \E j \in Jitters :
                                 retry' = on_exception(r1, "Circuit breaker is open", j)
                            /\ call' = call
                            /\ event' = [kind |-> "rejected", breaker |-> b]
                       ELSE /\ retry' = [r1 EXCEPT !.pc = "inside"]
                            /\ call' = [call EXCEPT ![RetryCaller] = retry.target]
                            /\ event' = [kind |-> "invoked", breaker |-> b]
           ELSE /\ retry' = [r1 EXCEPT !.pc = "inside"]
                /\ UNCHANGED <<breaker, call, event>>
    /\ UNCHANGED <<now, streak, opened_at, failures, loaded, trial, request>>
    /\ UNCHANGED svars
    /\ UNCHANGED cvars

\* The body returns: the result passes through both wrappers to the caller.
AttemptReturn ==
    /\ phase \in {"retry", "guarded"}
    /\ retry.pc = "inside"
    /\ retry' = [retry EXCEPT !.pc = "done", !.outcome = "returned"]
    /\ IF retry.target \in Tools
       THEN /\ Succeeded(breaker_of(retry.target))
            /\ call' = [call EXCEPT ![RetryCaller] = "idle"]
       ELSE UNCHANGED <<breaker, call, event, streak, failures>>
    /\ UNCHANGED <<now, opened_at, loaded, trial, request>>
    /\ UNCHANGED svars
    /\ UNCHANGED cvars

\* The body raises: the breaker's wrapper counts the failure and re-raises
\* into the loop's except branch.
AttemptRaise ==
    /\ phase \in {"retry", "guarded"}
    /\ retry.pc = "inside"
    /\ retry.target \in Tools => may_raise(retry.target)
    /\ \E j \in Jitters : retry' = on_exception(retry, "failed", j)
    /\ IF retry.target \in Tools
       THEN /\ Failed(breaker_of(retry.target), breaker[breaker_of(retry.target)])
            /\ call' = [call EXCEPT ![RetryCaller] = "idle"]
       ELSE UNCHANGED <<breaker, call, event, streak, opened_at, failures>>
    /\ UNCHANGED <<now, loaded, trial, request>>
    /\ UNCHANGED svars
    /\ UNCHANGED cvars

\* The sleep ends and the loop goes round. On the clock of TickSeconds a
\* sleep of d seconds ends d \div TickSeconds ticks later, or one more.
Wake ==
    /\ phase \in {"retry", "guarded"}
    /\ retry.pc = "sleeping"
    /\ retry' = [retry EXCEPT !.pc = "ready", !.tries = @ + 1]
    /\ LET q == (retry.waits[Len(retry.waits)] \div 1000000) \div TickSeconds
       IN  \E k \in {q, q + 1} :
             /\ now + k * TickSeconds <= MaxTime
             /\ now' = now + k * TickSeconds
    /\ UNCHANGED <<breaker, call, event, streak, opened_at, failures, loaded, trial, request>>
    /\ UNCHANGED svars
    /\ UNCHANGED cvars

NextRetry ==
    \/ \E target \in RetryTargets, args \in RetryArgs : RetryCall(target, args)
    \/ Attempt
    \/ AttemptReturn
    \/ AttemptRaise
    \/ Wake
    \/ Tick

RetrySpec == InitRetry /\ [][NextRetry]_vars

InitGuarded ==
    /\ state = initial_state
    /\ cursor = "main_supervisor"
    /\ phase = "guarded"
    /\ status = "running"
    /\ human_input = "<unread>"
    /\ gate_impl = "placeholder"
    /\ final_result = no_step
    /\ report = NotReturned
    /\ BreakersIdle
    /\ StoreIdle

GuardedSpec == InitGuarded /\ [][NextRetry]_vars

----------------------------------------------------------------------------
(* The checkpoint database across process starts. Importing                 *)
(* src.graph.workflow compiles the graph with main_memory() as its          *)
(* checkpointer; a running session then writes a checkpoint after each      *)
(* node under its thread_id.                                                *)

InitStore ==
    /\ state = initial_state
    /\ cursor = "main_supervisor"
    /\ phase = "store"
    /\ status = "running"
    /\ human_input = "<unread>"
    /\ gate_impl = "placeholder"
    /\ final_result = no_step
    /\ report = NotReturned
    /\ BreakersIdle
    /\ StoreIdle

\* graph = workflow.compile(checkpointer=main_memory()): reset keeps its
\* default, True.
ImportWorkflow ==
    /\ phase = "store"
    /\ process = "down"
    /\ process' = "up"
    /\ checkpoints' = main_memory(checkpoints, TRUE)
    /\ UNCHANGED svars
    /\ UNCHANGED bvars

\* The saver writes the checkpoint of thread sid after a node, n being the
\* node to run next.
PutCheckpoint(sid, n) ==
    /\ phase = "store"
    /\ process = "up"
    /\ checkpoints' = [checkpoints EXCEPT !.thread[sid] = n]
    /\ UNCHANGED process
    /\ UNCHANGED svars
    /\ UNCHANGED bvars

\* The process ends, at any point of a session.
Exit ==
    /\ phase = "store"
    /\ process = "up"
    /\ process' = "down"
    /\ UNCHANGED checkpoints
    /\ UNCHANGED svars
    /\ UNCHANGED bvars

NextStore ==
    \/ ImportWorkflow
    \/ \E sid \in Sessions, n \in Cursors : PutCheckpoint(sid, n)
    \/ Exit

StoreSpec == InitStore /\ [][NextStore]_vars

----------------------------------------------------------------------------
(* Claims *)

review_decision == Get(state, "human_review_decision", "None")

\* The handler step that prompted the reviewer: it leaves phase "review"
\* from a pending gate, and human_input' is what was typed.
Prompted == phase = "review" /\ phase' # "review" /\ review_pending(state)

\* The fields the handler may write when it approves without changes.
DecisionFields == {"human_review_decision", "applied_feedback"}

\* Every field outside DecisionFields is the same before and after the step.
ReportsUntouched ==
    /\ DOMAIN state' \subseteq DOMAIN state \cup DecisionFields
    /\ \A k \in DOMAIN state \ DecisionFields : k \in DOMAIN state' /\ state'[k] = state[k]

\* C1: every session eventually stops walking the graph (it reaches END, or
\* aborts): the least the claimed bound on node visits implies. Stated
\* under FairSpec, where the executor always takes an enabled step. The
\* walk is the graph's own: the recursion limit of the graph library, which
\* would abort a long walk with an error instead of reaching END, is not
\* part of it.
C1_Terminates == <>(phase = "done")

\* C2: in every reachable snapshot the revision counter kept by the
\* decision stage (loop_count) lies between 0 and max_iterations.
C2_IterationBound ==
    "max_iterations" \in DOMAIN state =>
        /\ 0 <= Get(state, "loop_count", 0)
        /\ Get(state, "loop_count", 0) <= state["max_iterations"]

\* C3: a decision that asks for a revision when the counter has already
\* reached max_iterations starts no further revision cycle: the counter is
\* not advanced past the maximum (with max_iterations = 1 it goes 0 to 1 once).
C3_ForcedExit ==
    [][("max_iterations" \in DOMAIN state
         /\ "decision_output" \in DOMAIN state'
         /\ state'["decision_output"].iteration_required
         /\ Get(state, "loop_count", 0) >= state["max_iterations"])
        => Get(state', "loop_count", 0) = Get(state, "loop_count", 0)]_vars

\* C4: the human review node leaves the review state pending, and the walk
\* leaves the gate only in a step in which the caller's input was read.
C4_GateSuspends ==
    [][/\ (phase = "run" /\ phase' = "review")
            => Get(state', "human_review_decision", "None") = "pending"
       /\ (phase = "review" /\ phase' = "run")
            => (human_input = "<unread>" /\ human_input' # "<unread>")]_vars

GateFields == {"human_review_decision", "presented_report"}

\* C6: the gate writes none of the report fields, and a resume with empty
\* or absent feedback (a blank line, or the empty mapping) approves and
\* leaves every report field of the snapshot as it was.
EmptyFeedback(input) == Strip(input) = "" \/ input = "{}"

C6_EmptyFeedbackApproves ==
    [][/\ (phase = "run" /\ phase' = "review")
            => \A k \in DOMAIN state \ GateFields :
                    k \in DOMAIN state' /\ state'[k] = state[k]
       /\ (Prompted /\ EmptyFeedback(human_input'))
            => /\ Get(state', "human_review_decision", "None") = "approved"
               /\ status' = status
               /\ ReportsUntouched]_vars

C6_Witness ==
    /\ EmptyFeedback(human_input)
    /\ review_decision = "approved"
    /\ Get(state, "final_report", <<>>) # <<>>
    /\ Get(state, "final_report", <<>>) = Get(state, "presented_report", <<>>)
    /\ cursor = "END"

\* The title a feedback key is searched under: key.replace('_', ' ').title(),
\* found in the header line "<title>:".
section_title(key) == IF key = "risk_report" THEN "Risk Report:" ELSE key

\* The body under a header of the report, "<none>" without the header.
SectionBody(text, title) ==
    IF \E i \in 1..(Len(text) - 1) : text[i] = title
    THEN text[(CHOOSE i \in 1..(Len(text) - 1) : text[i] = title) + 1]
    ELSE "<none>"

WellFormedFeedback(input) ==
    Strip(input) # "" /\ safe_load(input).kind = "dict" /\ DOMAIN safe_load(input).value # {}

\* C7: a resume with a well-formed feedback mapping sets changes_applied,
\* every named section then holds its replacement text, and the segments of
\* the report that are not a named section's body are unchanged.
C7_FeedbackApplied ==
    [][(Prompted /\ WellFormedFeedback(human_input'))
        => LET fb == safe_load(human_input').value
               old == Get(state, "final_report", <<>>)
               new == Get(state', "final_report", <<>>)
           IN  /\ Get(state', "human_review_decision", "None") = "changes_applied"
               /\ \A k \in DOMAIN fb : SectionBody(new, section_title(k)) = fb[k]
               /\ \A i \in 1..Len(old) :
                    (i = 1 \/ old[i - 1] \notin {section_title(k) : k \in DOMAIN fb})
                        => (i <= Len(new) /\ new[i] = old[i])]_vars

MalformedFeedback(input) ==
    Strip(input) # "" /\ safe_load(input).kind \in {"YAMLError", "str", "list"}

\* C8: a resume with malformed feedback does not fail the session, leaves
\* the report fields unchanged, approves as-is, and appends one warning to
\* the snapshot's message log.
C8_MalformedWarns ==
    [][(Prompted /\ MalformedFeedback(human_input'))
        => /\ status' # "error"
           /\ Get(state', "human_review_decision", "None") = "approved"
           /\ \A k \in {"final_report", "research_report", "valuation_report",
                        "risk_report", "compliance_report"} :
                    Get(state', k, "<absent>") = Get(state, k, "<absent>")
           /\ Len(state'["messages"]) = Len(state["messages"]) + 1]_vars

C10_OpensAtThreshold ==
    [][\A b \in Breakers :
        /\ (breaker[b].state = "closed" /\ streak'[b] = streak[b] + 1)
            => /\ breaker'[b].failure_count = breaker[b].failure_count + 1
               /\ (streak'[b] >= failure_threshold
                    => /\ breaker'[b].state = "open"
                       /\ breaker'[b].last_failure_time = now)
               /\ (breaker'[b].failure_count < failure_threshold
                    => breaker'[b].state = "closed")
        /\ (breaker[b].state = "closed" /\ event' # event)
            => ~(event'.kind = "rejected" /\ event'.breaker = b)]_vars

C10_Witness ==
    \E b \in Breakers :
        /\ breaker[b].state = "open"
        /\ breaker[b].failure_count = failure_threshold
        /\ streak[b] = failure_threshold
        /\ now > 0
        /\ breaker[b].last_failure_time = now
        /\ event = [kind |-> "failed", breaker |-> b]

\* A step in which a call through breaker b completed with a failure, and
\* one in which it completed with a success.
FailedStep(b) == streak'[b] = streak[b] + 1
SucceededStep(b) ==
    /\ streak'[b] = 0
    /\ \E c \in Callers : call[c] # "idle" /\ breaker_of(call[c]) = b /\ call'[c] = "idle"

\* C11: failure_count is the current number of consecutive failed calls (a
\* successful call ends the run, so failures separated by a success do not
\* add up), and a closed breaker opens only on the failure that completes
\* failure_threshold consecutive failures.
C11_ConsecutiveFailures ==
    [][\A b \in Breakers :
        /\ breaker'[b].failure_count = streak'[b]
        /\ (breaker[b].state = "closed" /\ breaker'[b].state = "open")
            => streak'[b] >= failure_threshold]_vars

\* A step in which a call through breaker b was made: it entered the body
\* of a tool of b, or was rejected at the head of the wrapper.
EnteredStep(b) ==
    \E c \in Callers : call[c] = "idle" /\ call'[c] # "idle" /\ breaker_of(call'[c]) = b
RejectedStep(b) ==
    event' = [kind |-> "rejected", breaker |-> b] /\ event' # event

TrialInFlight(b) ==
    /\ breaker[b].state = "half-open"
    /\ \E c \in Callers : call[c] # "idle" /\ breaker_of(call[c]) = b

\* C13: while a breaker is half-open and its trial call has not completed,
\* no other call through it reaches the body of a tool.
C13_SingleTrial ==
    [][\A b \in Breakers : TrialInFlight(b) => ~EnteredStep(b)]_vars

\* C14: a call through a half-open breaker that completes with a success
\* leaves the breaker closed with failure_count 0; one that completes with
\* a failure leaves it open, set open at the time of that failure.
C14_TrialOutcome ==
    [][\A b \in Breakers :
        breaker[b].state = "half-open" =>
            /\ SucceededStep(b)
                => (breaker'[b].state = "closed" /\ breaker'[b].failure_count = 0)
            /\ FailedStep(b)
                => /\ breaker'[b].state = "open"
                   /\ opened_at'[b] = now
                   /\ breaker'[b].last_failure_time = now]_vars

\* One breaker closed again by its trial, the other set open again by the
\* failure of its trial.
C14_Witness ==
    \E b1, b2 \in Breakers :
        /\ breaker[b1].state = "closed"
        /\ breaker[b1].failure_count = 0
        /\ opened_at[b1] >= 0
        /\ breaker[b2].state = "open"
        /\ breaker[b2].failure_count > failure_threshold
        /\ opened_at[b2] = now
        /\ now > recovery_timeout
        /\ event = [kind |-> "failed", breaker |-> b2]

\* The failed attempts of the call in progress that reached the tool's body
\* and were counted by the breaker.
CountedFailures == {i \in 1..Len(retry.errors) : retry.errors[i] = "failed"}

\* C15: retries happen inside one breaker-guarded call. An attempt of a
\* tool call that the open breaker rejects ends the call: it is the last
\* attempt and no backoff is slept after it; and one call of a tool, with
\* all its retries, is counted by the breaker as at most one failure.
C15_RetriesInsideBreaker ==
    retry.target \in Tools =>
        /\ \A i \in 1..Len(retry.errors) :
             retry.errors[i] = "Circuit breaker is open"
                => (i = retry.attempts /\ retry.pc = "done" /\ Len(retry.waits) < i)
        /\ Cardinality(CountedFailures) <= 1

\* A step in which a call of tool t completed with a failure.
ToolFailedStep(t) ==
    /\ FailedStep(breaker_of(t))
    /\ \E c \in Callers : call[c] = t /\ call'[c] = "idle"

\* C16: the failure of a call to one dependency changes nothing of the
\* breaker that guards the calls to a different dependency.
C16_IndependentBreakers ==
    [][\A t, u \in Tools :
        (t # u /\ ToolFailedStep(t))
            => breaker'[breaker_of(u)] = breaker[breaker_of(u)]]_vars

\* C17: whatever the interleaving of the calls through a breaker, its
\* failure_count is the number of calls that failed since the count was
\* last reset, and the breaker is not closed when the count has reached
\* failure_threshold.
C17_NoLostUpdate ==
    \A b \in Breakers :
        /\ breaker[b].failure_count = failures[b]
        /\ breaker[b].failure_count >= failure_threshold => breaker[b].state # "closed"

\* C18: a call through the retry decorator invokes the wrapped function at
\* most max_retries + 1 times. It raises to the caller only after exactly
\* max_retries + 1 invocations that all failed, and what it raises is the
\* exception of the last one; when every invocation of a finished call
\* failed the call raised; a call that returned ended with its first
\* successful invocation.
C18_RetryCount ==
    LET m == retry.args.max_retries
    IN  /\ retry.attempts <= m + 1
        /\ retry.outcome = "raised" <=> (retry.pc = "done" /\ Len(retry.errors) = retry.attempts)
        /\ retry.outcome = "raised"
            => (retry.attempts = m + 1 /\ retry.propagated = m + 1)
        /\ retry.outcome = "returned"
            => (retry.pc = "done" /\ retry.attempts = Len(retry.errors) + 1)

\* Four invocations with max_retries = 3, all failed.
C18_Witness ==
    /\ retry.target = "unreliable_api_call"
    /\ retry.args.max_retries = 3
    /\ retry.outcome = "raised"
    /\ retry.attempts = 4
    /\ retry.errors = <<"failed", "failed", "failed", "failed">>

\* The delays of the docstring's example, in microseconds.
ExampleArgs ==
    [max_retries |-> 5, initial_delay |-> 500000,
     exponential_base |-> <<2, 1>>, jitter |-> FALSE]
ExampleDelays == <<500000, 1000000, 2000000, 4000000, 8000000>>

\* C19: the delay slept after the failure of attempt n (counted from 0) is
\* initial_delay x exponential_base^n, plus a jitter in [0, 1) second when
\* jitter is enabled and nothing otherwise; without jitter, initial_delay
\* 0.5 and base 2 give 0.5, 1, 2, 4, 8 s, and the delays never decrease
\* when the base is at least 1; a delay is slept after every failed attempt
\* but the final one.
C19_BackoffDelays ==
    LET a == retry.args
        w == retry.waits
        expected(n) == (a.initial_delay * Pow(a.exponential_base[1], n))
                            \div Pow(a.exponential_base[2], n)
    IN  /\ \A i \in 1..Len(w) :
             /\ w[i] - expected(i - 1) >= 0
             /\ w[i] - expected(i - 1) < (IF a.jitter THEN 1000000 ELSE 1)
        /\ a = ExampleArgs
            => (Len(w) <= 5 /\ \A i \in 1..Len(w) : w[i] = ExampleDelays[i])
        /\ (~a.jitter /\ a.exponential_base[1] >= a.exponential_base[2])
            => \A i \in 1..(Len(w) - 1) : w[i] <= w[i + 1]
        /\ Len(w) = Len(retry.errors) - (IF retry.outcome = "raised" THEN 1 ELSE 0)
        /\ Len(w) <= a.max_retries

C19_Witness ==
    /\ retry.args = ExampleArgs
    /\ retry.outcome = "raised"
    /\ retry.waits = ExampleDelays
    /\ retry.attempts = 6

\* C20: no step of the core removes a checkpoint from the database, and
\* the start of the process (the initialisation of the checkpoint store)
\* leaves the database holding every checkpoint it held, unchanged.
C20_CheckpointsSurvive ==
    [][/\ \A sid \in Sessions :
            (checkpoints.exists /\ checkpoints.thread[sid] # "<none>")
                => (checkpoints'.exists /\ checkpoints'.thread[sid] # "<none>")
       /\ (process = "down" /\ process' = "up" /\ checkpoints.exists)
            => checkpoints' = checkpoints]_vars

----------------------------------------------------------------------------
(* Routing, stage errors and the returned report *)

\* The key the router of node n returns on snapshot s, and the keys the
\* edge map of n declares.
route_key(n, s) ==
    CASE n = "main_supervisor" -> main_supervisor_router(s)
      [] n = "validate_report" -> validate_report_router(s)
      [] n = "human_in_the_loop" -> human_in_the_loop_router(s)

declared_keys(n) ==
    CASE n = "main_supervisor" -> RouteKeys
      [] n = "validate_report" -> {"human_in_the_loop", "main_supervisor"}
      [] n = "human_in_the_loop" -> {"END", "main_supervisor"}

ConditionalNodes == {"main_supervisor", "validate_report", "human_in_the_loop"}

\* C21: every conditional router is total: on the snapshot a node with a
\* conditional edge leaves behind, its router returns one of the route keys
\* its edge map declares, whatever the supervisor's output is (missing,
\* malformed, naming an unknown agent); it never fails and never returns an
\* undeclared name.
C21_RoutersTotal ==
    [][(phase \in {"run", "review"} /\ cursor \in ConditionalNodes
        /\ (state' # state \/ cursor' # cursor \/ phase' # phase))
       => route_key(cursor, state') \in declared_keys(cursor)]_vars

DomainStages == {"research", "valuation", "risk", "compliance"}

report_field(n) ==
    CASE n = "research" -> "research_report"
      [] n = "valuation" -> "valuation_report"
      [] n = "risk" -> "risk_report"
      [] n = "compliance" -> "compliance_report"

failure_message(n) ==
    CASE n = "research" -> "Research node failed"
      [] n = "valuation" -> "Valuation node failed"
      [] n = "risk" -> "Risk node failed"
      [] n = "compliance" -> "Compliance node failed"

\* Field f is in the next snapshot exactly as it is in this one.
FieldKept(f) ==
    /\ f \in DOMAIN state' <=> f \in DOMAIN state
    /\ f \in DOMAIN state => state'[f] = state[f]

----------------------------------------------------------------------------
(* The preparation stages: the ticker agent, the librarian and the         *)
(* orchestrator. workflow.py registers none of them, so they are run on    *)
(* their own, in any order, by an executor that treats a node the way the  *)
(* compiled graph does: a returned dict is merged into the snapshot and    *)
(* the session goes on, an exception ends the session with status error.   *)

\* The session stops taking preparation steps once the message log holds
\* this many messages.
MaxMessages == 4

Truthy(s, k) == k \in DOMAIN s /\ s[k] # ""

\* nodes.py:71-93. The loop counter i is read before it is ever assigned, so
\* the body of the try fails at once and the handler returns the error.
ticker_agent_node(s) ==
    {[error |-> "Ticker agent node failed"]}

\* agents/preprocessing/preprocessing.py:28-71, the other ticker agent. The
\* returned message list is the log plus one message; add_messages keeps
\* the messages it already has, so the update adds the new message.
preprocessing_ticker_agent_node(s) ==
    IF ~Truthy(s, "company_name")
    THEN {[error |-> "No company name provided",
           messages |-> <<"Please provide a company name to analyze.">>]}
    ELSE {[ticker |-> "MSFT", company_name |-> s.company_name,
           messages |-> <<"Found ticker">>],
          [error |-> "Could not find a valid ticker symbol",
           messages |-> <<"Could not find a valid ticker symbol">>],
          [error |-> "An error occurred while finding the ticker",
           messages |-> <<"An error occurred">>]}

\* What a node that raises hands the executor in place of an update.
KeyError == [raise |-> "KeyError"]

\* workflow.py:27-66 and nodes.py:95-134. The three subscripts of the
\* snapshot stand before the try: a missing key is a KeyError nothing
\* catches.
liberarian_node(s) ==
    IF {"ticker", "rag_path", "company_name"} \subseteq DOMAIN s
    THEN {[ingestion_result |-> "ingested"], [error |-> "Librarian node failed"]}
    ELSE {KeyError}

\* nodes.py:136-178.
orchestrator_node(s) ==
    IF ~Truthy(s, "ticker")
    THEN {[error |-> "No ticker symbol found in state"]}
    ELSE {[mission_plan |-> "plan", messages |-> <<"Mission Plan">>],
          [error |-> "An unexpected error occurred in the orchestrator"]}

PreparationNodes ==
    {"ticker_agent", "preprocessing_ticker_agent", "librarian", "orchestrator"}

InitNodes ==
    /\ state = initial_state
    /\ cursor = "start"
    /\ phase = "nodes"
    /\ status = "running"
    /\ human_input = "<unread>"
    /\ gate_impl = "placeholder"
    /\ final_result = no_step
    /\ report = NotReturned
    /\ BreakersIdle
    /\ StoreIdle

\* One executor step over a preparation node.
RunNode(n, results) ==
    /\ phase = "nodes"
    /\ Len(state.messages) < MaxMessages
    /\ \E r \in results :
        IF "raise" \in DOMAIN r
        THEN /\ status' = "error"
             /\ phase' = "done"
             /\ state' = state
        ELSE /\ state' = Merge(state, r)
             /\ status' = status
             /\ phase' = phase
    /\ cursor' = n
    /\ UNCHANGED <<human_input, gate_impl, final_result, report>>
    /\ UNCHANGED bvars
    /\ UNCHANGED cvars

TickerAgentStep == RunNode("ticker_agent", ticker_agent_node(state))
PreprocessingTickerAgentStep ==
    RunNode("preprocessing_ticker_agent", preprocessing_ticker_agent_node(state))
LibrarianStep == RunNode("librarian", liberarian_node(state))
OrchestratorStep == RunNode("orchestrator", orchestrator_node(state))

NextNodes ==
    \/ TickerAgentStep
    \/ PreprocessingTickerAgentStep
    \/ LibrarianStep
    \/ OrchestratorStep

NodeSpec == InitNodes /\ [][NextNodes]_vars

\* C23: no exception raised while a stage node runs escapes the node: the
\* node catches it and returns an update with an error field. So no step of
\* a stage node ends the session with status error, whatever snapshot the
\* node is given.
C23_NoExceptionEscapes ==
    [][phase = "nodes" => status' # "error"]_vars

\* The errors that mean no valid ticker was resolved for the subject.
FatalErrors ==
    {"Ticker agent node failed", "No ticker symbol found in state",
     "Could not find a valid ticker symbol"}

\* A preparation node has just reported that there is no valid ticker.
FatalStep ==
    /\ phase = "nodes"
    /\ cursor' \in PreparationNodes
    /\ ~Truthy(state, "ticker")
    /\ "error" \in DOMAIN state'
    /\ state'.error \in FatalErrors
    /\ (state' # state \/ cursor' # cursor)

\* C24: a fatal stage error, such as no valid ticker being resolved for the
\* subject, aborts the session at once: the step that reports it ends the
\* session with a terminal failure (status error), so that no further stage
\* runs and the cursor does not advance.
C24_FatalAborts ==
    [][FatalStep => (phase' = "done" /\ status' = "error")]_vars

\* C25: when the walk has reached END and analyze_company has returned
\* status success, the report it returned is the final_report field of the
\* session's final snapshot, whenever that snapshot holds one.
C25_ReturnsFinalReport ==
    (phase = "done" /\ status = "success" /\ "final_report" \in DOMAIN state)
        => report = state.final_report

----------------------------------------------------------------------------
(* One FMP request at a time through _execute_fmp_request *)

InitFmp ==
    /\ state = initial_state
    /\ cursor = "main_supervisor"
    /\ phase = "fmp"
    /\ status = "running"
    /\ human_input = "<unread>"
    /\ gate_impl = "placeholder"
    /\ final_result = no_step
    /\ report = NotReturned
    /\ BreakersIdle
    /\ StoreIdle

FmpRequest(ticker) ==
    /\ phase = "fmp"
    /\ request.pc \in {"idle", "returned"}
    /\ request' = [request_idle EXCEPT !.pc = "attempt", !.ticker = ticker]
    /\ UNCHANGED <<breaker, now, call, event, streak, opened_at, failures, loaded, retry, trial>>
    /\ UNCHANGED svars
    /\ UNCHANGED cvars

FmpResponse(response) ==
    /\ phase = "fmp"
    /\ request.pc = "attempt"
    /\ request' = on_response(request, response)
    /\ UNCHANGED <<breaker, now, call, event, streak, opened_at, failures, loaded, retry, trial>>
    /\ UNCHANGED svars
    /\ UNCHANGED cvars

FmpWake ==
    /\ phase = "fmp"
    /\ request.pc = "sleep"
    /\ request' = next_attempt(request)
    /\ UNCHANGED <<breaker, now, call, event, streak, opened_at, failures, loaded, retry, trial>>
    /\ UNCHANGED svars
    /\ UNCHANGED cvars

NextFmp ==
    \/ \E ticker \in Tickers : FmpRequest(ticker)
    \/ \E response \in Responses : FmpResponse(response)
    \/ FmpWake

FmpSpec == InitFmp /\ [][NextFmp]_vars

AllRateLimited(r) ==
    /\ r.responses # <<>>
    /\ \A i \in 1..Len(r.responses) : r.responses[i] = "429"

CompletedStep(c, b) ==
    call[c] # "idle" /\ breaker_of(call[c]) = b /\ call'[c] = "idle"

\* C27: a breaker leaves half-open for closed only because its trial call,
\* the call let in by the step from open to half-open, completed with a
\* success: the completion of a call that was let in before the breaker
\* opened never closes it. A trial call that fails leaves the breaker open.
C27_OnlyTrialCloses ==
    [][\A b \in Breakers :
        /\ (breaker[b].state = "half-open" /\ breaker'[b].state = "closed")
            => (trial[b] # "none" /\ CompletedStep(trial[b], b) /\ SucceededStep(b))
        /\ (breaker[b].state = "half-open" /\ trial[b] # "none"
            /\ CompletedStep(trial[b], b) /\ FailedStep(b))
            => breaker'[b].state = "open"]_vars

C29_RejectionChangesNothing ==
    [][\A b \in Breakers :
        RejectedStep(b)
        => /\ breaker'[b] = breaker[b]
           /\ opened_at'[b] = opened_at[b]
           /\ call' = call]_vars

\* A call has been rejected by a breaker that is still open, with its last
\* failure stamped recovery_timeout ago.
C29_Witness ==
    \E b \in Breakers :
        /\ event = [kind |-> "rejected", breaker |-> b]
        /\ breaker[b].state = "open"
        /\ breaker[b].failure_count >= failure_threshold
        /\ now - breaker[b].last_failure_time = recovery_timeout

\* C30: the human review node is entered only directly after
\* validate_report, and only when the validation report just produced does
\* not contain "failed", that is when the aggregated report holds no
\* "error". A report that failed validation goes back to main_supervisor,
\* so it reaches the reviewer only after it has been aggregated and
\* validated again.
C30_ReviewOnlyAfterValidation ==
    [][/\ (phase = "run" /\ cursor # "human_in_the_loop" /\ cursor' = "human_in_the_loop")
          => /\ cursor = "validate_report"
             /\ "validation_report" \in DOMAIN state'
             /\ ~ContainsFailed(state'.validation_report)
             /\ ~ContainsError(Get(state', "final_report", <<>>))
       /\ (phase = "run" /\ cursor = "validate_report" /\ cursor' # cursor
           /\ ContainsFailed(Get(state', "validation_report", "")))
          => cursor' = "main_supervisor"]_vars

\* The reviewer's node is about to run on a validated report that holds a
\* research section.
C30_Witness ==
    /\ phase = "run"
    /\ cursor = "human_in_the_loop"
    /\ Get(state, "validation_report", "") = ValidationSuccessful
    /\ Get(state, "research_report", "") = CleanText
    /\ Len(Get(state, "final_report", <<>>)) >= 2

====
